---- MODULE Spec2Model ----
(***************************************************************************)
(* Model of the IntegrationHub demo (test.cpp) and of the flat C API it    *)
(* calls (IntegrationHubWrapper.h).                                        *)
(*                                                                         *)
(* Threads: main (spawns the worker and joins it), the worker running      *)
(* threadHandle, and the threads of the external library, which invoke the *)
(* two registered callbacks and change the active device on their own.     *)
(* The library is closed source: every value it returns is a               *)
(* nondeterministic choice from a small set.                               *)
(***************************************************************************)
EXTENDS Integers, Sequences, FiniteSets, TLC

VARIABLES
    mainPc,         \* position of main
    pc,             \* position of the worker thread in threadHandle
    communication,  \* threadHandle's local: the connection handle
    input,          \* threadHandle's local: the menu input of this iteration
    activeDevice,   \* threadHandle's local: result of getActiveDeviceIndex
    cinState,       \* std::cin: "good", or "fail" once failbit is set
    libActive,      \* library state: index of the device active right now
    serialCb,       \* library state: registered SerialInCallback
    deviceCb,       \* library state: registered DeviceStateCallback
    startLog,       \* library calls made by the worker before the loop
    iterLog,        \* library calls made by the worker in this iteration
    calledFns,      \* names of all library functions called so far
    stdout          \* last line written to std::cout

vars == <<mainPc, pc, communication, input, activeDevice, cinState, libActive,
          serialCb, deviceCb, startLog, iterLog, calledFns, stdout>>

----------------------------------------------------------------------------
(* Bounds of the model *)

MaxInput == 4
MaxDevice == 2
MaxStatus == 1

(* int is 32 bits wide on the target *)
INT_MAX == 2147483647
INT_MIN == -2147483647 - 1

InputValues == -1..MaxInput
\* values an int object can be found to hold
IntValues == InputValues \cup {INT_MAX, INT_MIN}
DeviceValues == -1..MaxDevice
StatusCodes == -1..MaxStatus

NULL == "nullptr"
Handles == {"conn"}
Unset == "unset"
\* a local int is <<v>> once it holds v, and <<>> while it was never written
Indeterminate == <<>>
Holding(v) == <<v>>
Val(obj) == obj[1]

----------------------------------------------------------------------------
(* Arguments passed to the library *)

NoArg == [kind |-> "none"]

companyName == [kind |-> "string", value |-> "TokenLinuxTest"]

SerialCbArg == [kind |-> "callback", name |-> "setSerialInCallbackTest"]

DeviceCbArg == [kind |-> "callback", name |-> "setDeviceStateCallbackTest"]

X30TRBasket ==
    [kind |-> "basket", basketID |-> "a123ca24-ca2c-401c-8134-f0de2ec25c25",
     documentType |-> 9008, taxID |-> "11111111111",
     price |-> 1000, quantity |-> 1000, sectionNo |-> 2, taxPercent |-> 2000,
     type |-> 0, taxFreeAmount |-> 5000,
     paymentItems |-> <<[amount |-> 6000, description |-> "Cash", type |-> 1]>>]

TR300Basket ==
    [kind |-> "basket", basketID |-> "a123ca24-ca2c-401c-8134-f0de2ec25c25",
     documentType |-> 0, taxID |-> "11111111111",
     price |-> 1000, quantity |-> 1000, sectionNo |-> 1, taxPercent |-> 1000,
     type |-> 0, taxFreeAmount |-> 5000,
     paymentItems |-> <<>>]

PaymentBody ==
    [kind |-> "payment", amount |-> 6000, description |-> "Nakit", type |-> 1]

\* one call of a library function: its name, handle, argument, returned value
Call(fn, ptr, arg, ret) == [fn |-> fn, ptr |-> ptr, arg |-> arg, ret |-> ret]

\* one line written to std::cout: its label and the value that follows it
Line(label, val) == [label |-> label, val |-> val]

\* what a function of the demo did: the library calls it made, the lines it wrote
Effect(calls, out) == [calls |-> calls, out |-> out]

----------------------------------------------------------------------------
(* The functions of test.cpp. `ret` is the value the library returns to the *)
(* one call the function may make.                                          *)

setSerialInCallbackTest(tag, data) ==
    <<Line("Serial In Callback Result In Test", data)>>

setDeviceStateCallbackTest(state, deviceId) ==
    <<Line("Device State Callback Result In Test", deviceId)>>

\* variant: the two bodies are exchanged
sendBasketTest_swapped(comm, dev, ret) ==
    IF dev = 0
    THEN Effect(<<Call("sendBasket", comm, TR300Basket, ret)>>,
                <<Line("basketResult", ret)>>)
    ELSE IF dev = 1
    THEN Effect(<<Call("sendBasket", comm, X30TRBasket, ret)>>,
                <<Line("basketResult", ret)>>)
    ELSE Effect(<<>>, <<>>)

\* variant: a basket the library did not accept is sent a second time
sendBasketTest_retry(comm, dev, ret) ==
    IF dev \in {0, 1}
    THEN LET c == Call("sendBasket", comm,
                       IF dev = 0 THEN X30TRBasket ELSE TR300Basket, ret)
         IN  Effect(IF ret # 0 THEN <<c, c>> ELSE <<c>>,
                    <<Line("basketResult", ret)>>)
    ELSE Effect(<<>>, <<>>)

sendBasketTest(comm, dev, ret) ==
    IF dev = 0
    THEN Effect(<<Call("sendBasket", comm, X30TRBasket, ret)>>,
                <<Line("basketResult", ret)>>)
    ELSE IF dev = 1
    THEN Effect(<<Call("sendBasket", comm, TR300Basket, ret)>>,
                <<Line("basketResult", ret)>>)
    ELSE Effect(<<>>, <<>>)

\* variant: the payment is sent to either model
sendPaymentTest_anyModel(comm, dev, ret) ==
    IF dev \in {0, 1}
    THEN Effect(<<Call("sendPayment", comm, PaymentBody, ret)>>,
                <<Line("paymentResult", ret)>>)
    ELSE Effect(<<>>, <<>>)

sendPaymentTest(comm, dev, ret) ==
    IF dev = 1
    THEN Effect(<<Call("sendPayment", comm, PaymentBody, ret)>>,
                <<Line("paymentResult", ret)>>)
    ELSE Effect(<<>>, <<>>)

getFiscalInfoTest(comm, ret) ==
    Effect(<<Call("getFiscalInfo", comm, NoArg, ret)>>,
           <<Line("Get Fiscal Info Result In Test", ret)>>)

\* variant: fiscal info is asked only of a known model
switchInput_knownModel(in, comm, dev, ret) ==
    CASE in = 0 -> Effect(<<>>, <<Line("Active Device Index", dev)>>)
      [] in = 1 -> sendBasketTest(comm, dev, ret)
      [] in = 2 -> sendPaymentTest(comm, dev, ret)
      [] in = 3 /\ dev \in {0, 1} -> getFiscalInfoTest(comm, ret)
      [] OTHER  -> Effect(<<>>, <<>>)

\* the switch statement of threadHandle
switchInput(in, comm, dev, ret) ==
    CASE in = 0 -> Effect(<<>>, <<Line("Active Device Index", dev)>>)
      [] in = 1 -> sendBasketTest(comm, dev, ret)
      [] in = 2 -> sendPaymentTest(comm, dev, ret)
      [] in = 3 -> getFiscalInfoTest(comm, ret)
      [] OTHER  -> Effect(<<>>, <<>>)

\* while (true)
LoopCondition == TRUE

\* operator>>(int&) of std::cin. A token is a number in range, a number out
\* of range ("over", "under"), a non-number ("text") or the end of input
\* ("eof"). `old` is what the int held before. The result is the int's new
\* value and the stream's new state.
Token(kind, value) == [kind |-> kind, value |-> value]

Tokens == {Token("number", n) : n \in InputValues}
          \cup {Token(k, 0) : k \in {"over", "under", "text", "eof"}}

Extract(state, token, old) ==
    IF state = "fail" THEN [value |-> old, state |-> "fail"]
    ELSE IF token.kind = "eof" THEN [value |-> old, state |-> "fail"]
    ELSE IF token.kind = "text" THEN [value |-> Holding(0), state |-> "fail"]
    ELSE IF token.kind = "over" THEN [value |-> Holding(INT_MAX), state |-> "fail"]
    ELSE IF token.kind = "under" THEN [value |-> Holding(INT_MIN), state |-> "fail"]
    ELSE [value |-> Holding(token.value), state |-> "good"]

\* the values a read of an int object yields: its value, or any int when the
\* object was never written
Read(obj) == IF obj = Indeterminate THEN IntValues ELSE {Val(obj)}

LastLine(out, old) == IF out = <<>> THEN old ELSE out[Len(out)]

Names(calls) == {calls[i].fn : i \in 1..Len(calls)}

----------------------------------------------------------------------------
Init ==
    /\ mainPc = "start"
    /\ pc = "idle"
    /\ communication = Unset
    /\ input = Indeterminate
    /\ activeDevice = Indeterminate
    /\ cinState = "good"
    /\ libActive \in DeviceValues
    /\ serialCb = Unset
    /\ deviceCb = Unset
    /\ startLog = <<>>
    /\ iterLog = <<>>
    /\ calledFns = {}
    /\ stdout = Line("", 0)

----------------------------------------------------------------------------
(* main *)

\* std::thread _thread(threadHandle);
main_spawn ==
    /\ mainPc = "start"
    /\ mainPc' = "join"
    /\ pc' = "create"
    /\ UNCHANGED <<communication, input, activeDevice, cinState, libActive,
                   serialCb, deviceCb, startLog, iterLog, calledFns, stdout>>

\* _thread.join(); blocks while the worker has not returned, and main then
\* falls off its end
main_join ==
    /\ mainPc = "join"
    /\ mainPc' = IF pc = "returned" THEN "exited" ELSE "join"
    /\ UNCHANGED <<pc, communication, input, activeDevice, cinState, libActive,
                   serialCb, deviceCb, startLog, iterLog, calledFns, stdout>>

----------------------------------------------------------------------------
(* threadHandle *)

\* variant: threadHandle returns when no connection was made
threadHandle_create_checked ==
    /\ pc = "create"
    /\ \E h \in Handles \cup {NULL} :
          /\ communication' = h
          /\ startLog' = Append(startLog, Call("createCommunication", h, companyName, 0))
          /\ pc' = IF h = NULL THEN "returned" ELSE "setSerial"
    /\ calledFns' = calledFns \cup {"createCommunication"}
    /\ UNCHANGED <<mainPc, input, activeDevice, cinState, libActive,
                   serialCb, deviceCb, iterLog, stdout>>

\* ConnectionWrapper* communication = createCommunication(companyName);
threadHandle_create ==
    /\ pc = "create"
    /\ \E h \in Handles \cup {NULL} :
          /\ communication' = h
          /\ startLog' = Append(startLog, Call("createCommunication", h, companyName, 0))
    /\ calledFns' = calledFns \cup {"createCommunication"}
    /\ pc' = "setSerial"
    /\ UNCHANGED <<mainPc, input, activeDevice, cinState, libActive,
                   serialCb, deviceCb, iterLog, stdout>>

\* setSerialInCallback(communication, setSerialInCallbackTest);
threadHandle_setSerialInCallback ==
    /\ pc = "setSerial"
    /\ startLog' = Append(startLog, Call("setSerialInCallback", communication, SerialCbArg, 0))
    /\ calledFns' = calledFns \cup {"setSerialInCallback"}
    /\ serialCb' = SerialCbArg.name
    /\ pc' = "setDevice"
    /\ UNCHANGED <<mainPc, communication, input, activeDevice, cinState,
                   libActive, deviceCb, iterLog, stdout>>

\* setDeviceStateCallback(communication, setDeviceStateCallbackTest);
threadHandle_setDeviceStateCallback ==
    /\ pc = "setDevice"
    /\ startLog' = Append(startLog, Call("setDeviceStateCallback", communication, DeviceCbArg, 0))
    /\ calledFns' = calledFns \cup {"setDeviceStateCallback"}
    /\ deviceCb' = DeviceCbArg.name
    /\ pc' = "sleep3"
    /\ UNCHANGED <<mainPc, communication, input, activeDevice, cinState,
                   libActive, serialCb, iterLog, stdout>>

\* std::this_thread::sleep_for(std::chrono::seconds(3));
threadHandle_sleep3 ==
    /\ pc = "sleep3"
    /\ pc' = "loop"
    /\ UNCHANGED <<mainPc, communication, input, activeDevice, cinState,
                   libActive, serialCb, deviceCb, startLog, iterLog, calledFns,
                   stdout>>

\* while (true) { the four menu lines; int input;
threadHandle_loop ==
    /\ pc = "loop"
    /\ IF LoopCondition
       THEN /\ pc' = "read"
            /\ stdout' = Line("3: Get Fiscal Info", 0)
       ELSE /\ pc' = "returned"
            /\ stdout' = stdout
    /\ input' = Indeterminate
    /\ activeDevice' = Indeterminate
    /\ iterLog' = <<>>
    /\ UNCHANGED <<mainPc, communication, cinState, libActive, serialCb,
                   deviceCb, startLog, calledFns>>

\* std::cin >> input;
threadHandle_read ==
    /\ pc = "read"
    /\ \E token \in Tokens :
          LET r == Extract(cinState, token, input) IN
          /\ input' = r.value
          /\ cinState' = r.state
    /\ pc' = "getActive"
    /\ UNCHANGED <<mainPc, communication, activeDevice, libActive, serialCb,
                   deviceCb, startLog, iterLog, calledFns, stdout>>

\* int activeDevice = getActiveDeviceIndex(communication);
threadHandle_getActiveDeviceIndex ==
    /\ pc = "getActive"
    /\ activeDevice' = Holding(libActive)
    /\ iterLog' = Append(iterLog, Call("getActiveDeviceIndex", communication, NoArg, libActive))
    /\ calledFns' = calledFns \cup {"getActiveDeviceIndex"}
    /\ pc' = "switch"
    /\ UNCHANGED <<mainPc, communication, input, cinState, libActive, serialCb,
                   deviceCb, startLog, stdout>>

\* switch (input) { ... }
threadHandle_switch ==
    /\ pc = "switch"
    /\ \E in \in Read(input), ret \in StatusCodes :
          LET e == switchInput(in, communication, Val(activeDevice), ret) IN
          /\ input' = Holding(in)
          /\ iterLog' = iterLog \o e.calls
          /\ calledFns' = calledFns \cup Names(e.calls)
          /\ stdout' = LastLine(e.out, stdout)
    /\ pc' = "sleep1"
    /\ UNCHANGED <<mainPc, communication, activeDevice, cinState, libActive,
                   serialCb, deviceCb, startLog>>

\* variant: the loop starts over at the registration of the callbacks
threadHandle_sleep1_reregister ==
    /\ pc = "sleep1"
    /\ pc' = "setSerial"
    /\ UNCHANGED <<mainPc, communication, input, activeDevice, cinState,
                   libActive, serialCb, deviceCb, startLog, iterLog, calledFns,
                   stdout>>

\* std::this_thread::sleep_for(std::chrono::seconds(1)); }
threadHandle_sleep1 ==
    /\ pc = "sleep1"
    /\ pc' = "loop"
    /\ UNCHANGED <<mainPc, communication, input, activeDevice, cinState,
                   libActive, serialCb, deviceCb, startLog, iterLog, calledFns,
                   stdout>>

threadHandle ==
    \/ threadHandle_create
    \/ threadHandle_setSerialInCallback
    \/ threadHandle_setDeviceStateCallback
    \/ threadHandle_sleep3
    \/ threadHandle_loop
    \/ threadHandle_read
    \/ threadHandle_getActiveDeviceIndex
    \/ threadHandle_switch
    \/ threadHandle_sleep1

----------------------------------------------------------------------------
(* The library's own threads *)

\* the library delivers serial data to the registered SerialInCallback
Lib_SerialIn ==
    /\ serialCb = "setSerialInCallbackTest"
    /\ \E tag \in 0..1, data \in 0..1 :
          stdout' = LastLine(setSerialInCallbackTest(tag, data), stdout)
    /\ UNCHANGED <<mainPc, pc, communication, input, activeDevice, cinState,
                   libActive, serialCb, deviceCb, startLog, iterLog, calledFns>>

\* variant: the callback keeps the reported device as the active one
Lib_DeviceState_tracking ==
    /\ deviceCb = "setDeviceStateCallbackTest"
    /\ \E state \in BOOLEAN, deviceId \in 0..1 :
          /\ stdout' = LastLine(setDeviceStateCallbackTest(state, deviceId), stdout)
          /\ activeDevice' = IF state THEN Holding(deviceId) ELSE activeDevice
    /\ UNCHANGED <<mainPc, pc, communication, input, cinState,
                   libActive, serialCb, deviceCb, startLog, iterLog, calledFns>>

\* the library reports a device state change to the registered
\* DeviceStateCallback
Lib_DeviceState ==
    /\ deviceCb = "setDeviceStateCallbackTest"
    /\ \E state \in BOOLEAN, deviceId \in 0..1 :
          stdout' = LastLine(setDeviceStateCallbackTest(state, deviceId), stdout)
    /\ UNCHANGED <<mainPc, pc, communication, input, activeDevice, cinState,
                   libActive, serialCb, deviceCb, startLog, iterLog, calledFns>>

\* another device becomes the active one
Lib_ActiveDeviceChange ==
    /\ pc \notin {"idle", "create"}
    /\ \E d \in DeviceValues \ {libActive} : libActive' = d
    /\ UNCHANGED <<mainPc, pc, communication, input, activeDevice, cinState,
                   serialCb, deviceCb, startLog, iterLog, calledFns, stdout>>

Library == Lib_SerialIn \/ Lib_DeviceState \/ Lib_ActiveDeviceChange

----------------------------------------------------------------------------
Next == main_spawn \/ main_join \/ threadHandle \/ Library

Spec == Init /\ [][Next]_vars

\* the scheduler runs every thread that can take a step; the library's
\* threads are under no obligation
FairSpec == Spec /\ WF_vars(threadHandle) /\ WF_vars(main_spawn \/ main_join)

TypeOK ==
    /\ mainPc \in {"start", "join", "exited"}
    /\ pc \in {"idle", "create", "setSerial", "setDevice", "sleep3", "loop",
               "read", "getActive", "switch", "sleep1", "returned"}
    /\ communication \in Handles \cup {NULL, Unset}
    /\ input \in {Holding(v) : v \in IntValues} \cup {Indeterminate}
    /\ activeDevice \in {Holding(d) : d \in DeviceValues} \cup {Indeterminate}
    /\ cinState \in {"good", "fail"}
    /\ libActive \in DeviceValues
    /\ Len(startLog) <= 3
    /\ Len(iterLog) <= 2

----------------------------------------------------------------------------
(* Vocabulary of the properties *)

StartupFns == <<"createCommunication", "setSerialInCallback", "setDeviceStateCallback">>

ActionFns == {"sendBasket", "sendPayment", "getFiscalInfo"}

FnSeq(log) == [i \in 1..Len(log) |-> log[i].fn]

Count(log, fns) == Cardinality({i \in 1..Len(log) : log[i].fn \in fns})

\* the worker has finished the switch of the current iteration
IterationDone == pc = "sleep1"

\* the value getActiveDeviceIndex returned in the current iteration
Queried == iterLog[1].ret

\* the library calls of an iteration with menu input `in` in which
\* getActiveDeviceIndex returned d
ExpectedFns(in, d) ==
    <<"getActiveDeviceIndex">> \o
        (IF in = 1 /\ d \in {0, 1} THEN <<"sendBasket">>
         ELSE IF in = 2 /\ d = 1 THEN <<"sendPayment">>
         ELSE IF in = 3 THEN <<"getFiscalInfo">>
         ELSE <<>>)

----------------------------------------------------------------------------
\* C1: the handle returned by createCommunication is passed to
\* deleteCommunication exactly once in every execution, and once it is
\* released the worker makes no further library call.
C1_ReleasedExactlyOnce ==
    /\ <>("deleteCommunication" \in calledFns)
    /\ [][("deleteCommunication" \in calledFns)
            => UNCHANGED <<calledFns, startLog, iterLog>>]_vars

\* C2: whatever is typed, the worker thread eventually finishes, the join
\* returns and main exits.
C2_MainExits == <>(pc = "returned" /\ mainPc = "exited")

\* C3: sendPayment is called only in an iteration whose input is 2 and whose
\* getActiveDeviceIndex result is 1, and then exactly once; input 2 with any
\* other index makes no library call but getActiveDeviceIndex.
C3_PaymentOnly300TR ==
    /\ Count(iterLog, {"sendPayment"}) > 0
          => /\ IterationDone \/ pc = "loop"
             /\ Val(input) = 2
             /\ Queried = 1
    /\ IterationDone /\ Val(input) = 2 /\ Queried = 1
          => /\ Count(iterLog, {"sendPayment"}) = 1
             /\ Len(iterLog) = 2
             /\ iterLog[2].arg = [kind |-> "payment", amount |-> 6000,
                                  description |-> "Nakit", type |-> 1]
    /\ IterationDone /\ Val(input) = 2 /\ Queried # 1
          => FnSeq(iterLog) = <<"getActiveDeviceIndex">>

C3_Witness ==
    /\ IterationDone
    /\ Val(input) = 2
    /\ Queried = 1
    /\ Count(iterLog, {"sendPayment"}) = 1

\* C4: for input 1 the basket depends only on the index obtained in this
\* iteration: 0 gives one sendBasket with the X30TR body, 1 gives one
\* sendBasket with the 300TR body, any other index gives no sendBasket.
C4_BasketByDevice ==
    IterationDone /\ Val(input) = 1 =>
        /\ Queried = 0 =>
              /\ FnSeq(iterLog) = <<"getActiveDeviceIndex", "sendBasket">>
              /\ iterLog[2].arg.documentType = 9008
              /\ iterLog[2].arg.sectionNo = 2
              /\ iterLog[2].arg.taxPercent = 2000
              /\ Len(iterLog[2].arg.paymentItems) = 1
        /\ Queried = 1 =>
              /\ FnSeq(iterLog) = <<"getActiveDeviceIndex", "sendBasket">>
              /\ iterLog[2].arg.documentType = 0
              /\ iterLog[2].arg.sectionNo = 1
              /\ iterLog[2].arg.taxPercent = 1000
              /\ iterLog[2].arg.paymentItems = <<>>
        /\ Queried \notin {0, 1} => Count(iterLog, {"sendBasket"}) = 0

C4_Witness ==
    /\ IterationDone
    /\ Val(input) = 1
    /\ Queried = 0
    /\ Count(iterLog, {"sendBasket"}) = 1

\* C5: an iteration makes at most one action call whatever the library
\* returns, the returned value is only written to std::cout, an iteration
\* starts with nothing kept from the one before, and reconnect is never
\* called.
C5_NoRetryNoState ==
    /\ [](Count(iterLog, ActionFns) <= 1)
    /\ []("reconnect" \notin calledFns)
    /\ [](pc = "read" => /\ iterLog = <<>>
                         /\ input = Indeterminate
                         /\ activeDevice = Indeterminate)
    /\ [][pc = "switch" /\ Count(iterLog', {"sendBasket", "sendPayment"}) = 1
            => /\ pc' = "sleep1"
               /\ Len(iterLog') = 2
               /\ stdout'.val = iterLog'[2].ret
               /\ stdout'.label \in {"basketResult", "paymentResult"}]_vars

C5_Witness ==
    /\ IterationDone
    /\ Count(iterLog, {"sendBasket"}) = 1
    /\ iterLog[2].ret = -1

\* C6: with a null handle from createCommunication the worker still registers
\* both callbacks, enters the loop and passes the null handle to every call,
\* step for step as with a live handle.
C6_NullHandleNotChecked ==
    communication = NULL =>
        /\ pc \in {"setSerial", "setDevice", "sleep3", "loop", "read",
                   "getActive", "switch", "sleep1"}
        /\ FnSeq(startLog) = SubSeq(StartupFns, 1, Len(startLog))
        /\ pc \notin {"setSerial", "setDevice"} => Len(startLog) = 3
        /\ \A i \in 1..Len(startLog) : startLog[i].ptr = NULL
        /\ \A i \in 1..Len(iterLog) : iterLog[i].ptr = NULL
        /\ IterationDone => FnSeq(iterLog) = ExpectedFns(Val(input), Queried)

C6_Witness ==
    /\ communication = NULL
    /\ IterationDone
    /\ FnSeq(iterLog) = <<"getActiveDeviceIndex", "sendBasket">>
    /\ iterLog[2].ptr = NULL

\* C7: whenever sendBasket is invoked its body is the one for the device
\* that is active at the moment of the call.
C7_BodyForActiveAtCall ==
    [][Count(iterLog', {"sendBasket"}) > Count(iterLog, {"sendBasket"})
         => /\ libActive = 0 => iterLog'[Len(iterLog')].arg.documentType = 9008
            /\ libActive = 1 => iterLog'[Len(iterLog')].arg.documentType = 0
            /\ libActive \in {0, 1}]_vars

\* C8: createCommunication, setSerialInCallback and setDeviceStateCallback are
\* called once each, in this order, on one handle, before the first call of
\* the loop; no callback is registered again or cleared.
C8_StartupOrder ==
    /\ Len(startLog) <= 3
    /\ FnSeq(startLog) = SubSeq(StartupFns, 1, Len(startLog))
    /\ \A i \in 1..Len(startLog) : startLog[i].ptr = communication
    /\ (iterLog # <<>> \/ calledFns \cap (ActionFns \cup {"getActiveDeviceIndex"}) # {})
          => Len(startLog) = 3
    /\ pc \in {"sleep3", "loop", "read", "getActive", "switch", "sleep1"}
          => Len(startLog) = 3
    /\ \A i \in 1..Len(iterLog) :
          /\ iterLog[i].fn \notin {StartupFns[j] : j \in 1..3}
          /\ iterLog[i].ptr = communication
    /\ Len(startLog) >= 2 => serialCb = "setSerialInCallbackTest"
    /\ Len(startLog) >= 3 => deviceCb = "setDeviceStateCallbackTest"

C8_Witness ==
    /\ IterationDone
    /\ Len(iterLog) = 2
    /\ Len(startLog) = 3
    /\ cinState = "good"

\* C9: every iteration calls getActiveDeviceIndex exactly once, after the
\* read and before any action call; for input 0 or outside 0..3 it is the
\* only call, and for input 3 getFiscalInfo is called once whatever the index.
C9_QueryEveryIteration ==
    /\ pc \in {"read", "getActive"} => iterLog = <<>>
    /\ pc \in {"switch", "sleep1"} =>
          /\ iterLog # <<>>
          /\ iterLog[1].fn = "getActiveDeviceIndex"
          /\ Count(iterLog, {"getActiveDeviceIndex"}) = 1
    /\ pc = "switch" => Len(iterLog) = 1
    /\ IterationDone /\ Val(input) \notin 1..3 => Len(iterLog) = 1
    /\ IterationDone /\ Val(input) = 3 =>
          /\ Len(iterLog) = 2
          /\ iterLog[2].fn = "getFiscalInfo"
          /\ iterLog[2].arg = [kind |-> "none"]

C9_Witness ==
    /\ IterationDone
    /\ Val(input) = 3
    /\ Queried \notin {0, 1}
    /\ Count(iterLog, {"getFiscalInfo"}) = 1

\* C10: a callback invocation changes nothing of the demo and makes no
\* library call, so the worker's calls and their arguments are fixed by the
\* menu input and the value getActiveDeviceIndex returned.
C10_CallbacksInert ==
    /\ [][pc' = pc => UNCHANGED <<communication, input, activeDevice, cinState,
                                  startLog, iterLog, calledFns, serialCb,
                                  deviceCb>>]_vars
    /\ [](IterationDone =>
            /\ FnSeq(iterLog) = ExpectedFns(Val(input), Queried)
            /\ Val(activeDevice) = Queried
            /\ Len(iterLog) = 2 =>
                  iterLog[2].arg.kind =
                      (CASE iterLog[2].fn = "sendBasket" -> "basket"
                         [] iterLog[2].fn = "sendPayment" -> "payment"
                         [] OTHER -> "none"))

C10_Witness ==
    /\ IterationDone
    /\ Len(iterLog) = 2
    /\ stdout.label = "Device State Callback Result In Test"

====
